---- MODULE Spec2Model ----
(***************************************************************************)
(* Weekly demand pipeline of the Sage 200 demand scheduler:                *)
(*   raw order rows -> prepare_sales_weekly_all -> split_hist_future       *)
(*                  -> seasonal_naive_forecast                             *)
(* (src/utils/forecasting.py, and the same steps inlined in src/app.py).   *)
(*                                                                         *)
(* Dates are day numbers counted from Monday 2018-01-01 (day 0), so that   *)
(* d % 7 is pandas' dayofweek (Monday = 0 ... Sunday = 6).                 *)
(* Floating-point cells are exact fractions [na, num, den] in lowest       *)
(* terms; an integer or date cell after coercion is [na, v].               *)
(***************************************************************************)
EXTENDS Integers, Sequences, FiniteSets, TLC

VARIABLES
    pc,                    \* position in the pipeline
    sales_df,              \* raw order rows as read from the CSV (strings)
    weekly_all,            \* prepare_sales_weekly_all(sales_df)
    today,                 \* the reference date read by the split
    weekly_hist,           \* split_hist_future(...)[0]
    weekly_future_actual,  \* split_hist_future(...)[1]
    weekly_sales_hist,     \* app.py split on week_begin: historic part
    weekly_sales_future,   \* app.py split on week_begin: future part
    forecast_weeks,        \* horizon passed to the forecaster
    forecast_df,           \* result of batch_seasonal_naive_forecast
    hist_reordered,        \* the same historic rows in another row order
    forecast_reordered,    \* result of the forecaster on hist_reordered
    sales_weekly,          \* prepare_sales_weekly(sales_df), src/forecasting.py
    second_call,           \* the clock-reading calls repeated at another time
    despatch_df,           \* app.py: raw despatch rows
    works_df,              \* app.py: raw works-order rows
    stock_df,              \* app.py: stock rows
    weekly_works_future,   \* app.py: future weeks of the works orders
    report_df              \* app.py: the demand report

vars == << pc, sales_df, weekly_all, today, weekly_hist, weekly_future_actual,
           weekly_sales_hist, weekly_sales_future, forecast_weeks, forecast_df,
           hist_reordered, forecast_reordered, sales_weekly, second_call,
           despatch_df, works_df, stock_df, weekly_works_future, report_df >>

\* The tables of the report of app.py.
appVars == << despatch_df, works_df, stock_df, weekly_works_future, report_df >>

---------------------------------------------------------------------------
(* Bounds of the model *)

MaxEvents == 3
MaxWeeks == 2

---------------------------------------------------------------------------
(* Calendar *)

Years == 2018..2029

IsLeap(y) == (y % 4 = 0 /\ y % 100 # 0) \/ y % 400 = 0

YearLen(y) == IF IsLeap(y) THEN 366 ELSE 365

\* Number of leap years before year y.
LeapsBefore(y) == ((y - 1) \div 4) - ((y - 1) \div 100) + ((y - 1) \div 400)

\* Day number of 1 January of year y.
YearStart(y) == 365 * (y - 2018) + (LeapsBefore(y) - LeapsBefore(2018))

YearOf(d) ==
    CHOOSE y \in Years :
        /\ YearStart(y) <= d
        /\ d < YearStart(y + 1)

DayOfYear(d) == d - YearStart(YearOf(d)) + 1

DayOfWeek(d) == d % 7

\* Series.dt.isocalendar().week: pandas' week-of-year computation.
IsoWeek(d) ==
    LET year == YearOf(d)
        doy  == DayOfYear(d)
        dow  == DayOfWeek(d)
        est  == (doy - 1) - dow + 3
        wk   == IF est >= 0 THEN (est \div 7) + 1 ELSE est
    IN  IF wk < 0
        THEN IF wk > -2 \/ (wk = -2 /\ IsLeap(year - 1)) THEN 53 ELSE 52
        ELSE IF wk = 53
             THEN IF (YearLen(year) - doy) + dow < 3 THEN 1 ELSE 53
             ELSE wk

\* Series.dt.isocalendar().year: the calendar year of the Thursday of the
\* week of d.
IsoYear(d) == YearOf(d - DayOfWeek(d) + 3)

\* Variant: bins closed on the left, so that a Sunday opens the next week.
WeekEndSunday_ClosedLeft(d) == IF DayOfWeek(d) = 6 THEN d + 7 ELSE d + (6 - DayOfWeek(d))

\* Label of the W-SUN bin (closed and labelled on the right) holding day d.
WeekEndSunday(d) == d + (6 - DayOfWeek(d))

---------------------------------------------------------------------------
(* Cells *)

NaT == [na |-> TRUE, v |-> 0]
NaN == [na |-> TRUE, v |-> 0]
Cell(x) == [na |-> FALSE, v |-> x]

\* pd.to_datetime(..., errors="coerce")
to_datetime(s) ==
    CASE s = "2023-01-08" -> Cell(1833)
      [] s = "2024-01-01" -> Cell(2191)
      [] s = "2024-01-07" -> Cell(2197)
      [] s = "2024-01-15" -> Cell(2205)
      [] s = "2026-12-27" -> Cell(3282)
      [] OTHER -> NaT

\* pd.to_numeric(..., errors="coerce", downcast="integer")
to_numeric(s) ==
    CASE s = "1" -> Cell(1)
      [] s = "2" -> Cell(2)
      [] OTHER -> NaN

\* read_csv turns an empty field into a missing value.
IsMissingItem(s) == s = ""

\* Order of the ItemCode strings, as string comparison gives it.
ItemRank(s) == CASE s = "A100" -> 1 [] s = "B200" -> 2 [] OTHER -> 0

---------------------------------------------------------------------------
(* Input domains *)

ItemCodes == {"A100", "B200"}
RawItems == ItemCodes \cup {""}
RawDates == {"2023-01-08", "2024-01-01", "2024-01-07", "2026-12-27", "n/a"}
RawQtys == {"1", "2", "x"}

RawRow(i, d, q) == [ItemCode |-> i, OrderDate |-> d, QuantityOrdered |-> q]

\* Rows whose three fields all parse.
CleanRows ==
    { r \in [ItemCode : RawItems, OrderDate : RawDates, QuantityOrdered : RawQtys] :
        /\ ~ IsMissingItem(r.ItemCode)
        /\ ~ to_datetime(r.OrderDate).na
        /\ ~ to_numeric(r.QuantityOrdered).na }

\* One row for each way a row can be malformed.
MalformedRows ==
    { RawRow("", "2024-01-07", "2"),
      RawRow("A100", "n/a", "2"),
      RawRow("A100", "2024-01-07", "x") }

RawRows == CleanRows \cup MalformedRows

\* Rank of a raw row. The tables are enumerated with their rows latest first
\* (rows of one day by item, then quantity): GroupByWeek sorts its keys and
\* adds the quantities, so one row order per bag of rows covers the others.
RowRank(r) ==
    10 * to_datetime(r.OrderDate).v + 3 * ItemRank(r.ItemCode)
        + to_numeric(r.QuantityOrdered).v

Todays == {2191, 2197, 3282}
Horizons == (-1)..MaxWeeks

---------------------------------------------------------------------------
(* Tables handed to a function *)

\* DataFrame.copy(): a new table with the same cells; a column assigned to
\* it afterwards does not reach the table it was copied from.
copy(df) == [table |-> df, shared |-> FALSE]

---------------------------------------------------------------------------
(* prepare_sales_weekly_all *)

Coerce(df) ==
    [ i \in 1..Len(df) |->
        [ ItemCode        |-> df[i].ItemCode,
          OrderDate       |-> to_datetime(df[i].OrderDate),
          QuantityOrdered |-> to_numeric(df[i].QuantityOrdered) ] ]

NotNull(r) ==
    /\ ~ r.OrderDate.na
    /\ ~ IsMissingItem(r.ItemCode)
    /\ ~ r.QuantityOrdered.na

\* Variant: only the rows without a date are dropped.
dropna_DateOnly(df) == SelectSeq(df, LAMBDA r : ~ r.OrderDate.na)

dropna(df) == SelectSeq(df, NotNull)

KeyLess(a, b) ==
    \/ ItemRank(a[1]) < ItemRank(b[1])
    \/ ItemRank(a[1]) = ItemRank(b[1]) /\ a[2] < b[2]

RECURSIVE SortedKeys(_)
SortedKeys(K) ==
    IF K = {} THEN << >>
    ELSE LET m == CHOOSE a \in K : \A b \in K \ {a} : KeyLess(a, b)
         IN  << m >> \o SortedKeys(K \ {m})

RECURSIVE GroupSum(_, _)
GroupSum(df, key) ==
    IF df = << >> THEN 0
    ELSE LET r == Head(df)
         IN  (IF << r.ItemCode, WeekEndSunday(r.OrderDate.v) >> = key
              THEN r.QuantityOrdered.v ELSE 0)
             + GroupSum(Tail(df), key)

WeeklyKeys(df) ==
    { << df[i].ItemCode, WeekEndSunday(df[i].OrderDate.v) >> : i \in 1..Len(df) }

GroupByWeek(df) ==
    LET keys == SortedKeys(WeeklyKeys(df))
    IN  [ i \in 1..Len(keys) |->
            [ ItemCode |-> keys[i][1],
              ds       |-> keys[i][2],
              y        |-> GroupSum(df, keys[i]) ] ]

prepare_sales_weekly_all(df) == GroupByWeek(dropna(Coerce(df)))

\* The caller's table after the call: the two coerced columns are assigned
\* to df, the copy; dropna then binds df to a further new table.
prepare_sales_weekly_all_leaves(sales) ==
    LET df == copy(sales)
    IN  IF df.shared THEN Coerce(sales) ELSE sales

---------------------------------------------------------------------------
(* split_hist_future, and the split of app.py on week_begin *)

week_begin(r) == r.ds - 6

\* Variant: the week that ends on the reference date is in neither part.
split_hist_future_Strict(weekly, now) ==
    << SelectSeq(weekly, LAMBDA r : r.ds < now),
       SelectSeq(weekly, LAMBDA r : r.ds > now) >>

split_hist_future(weekly, now) ==
    << SelectSeq(weekly, LAMBDA r : r.ds <= now),
       SelectSeq(weekly, LAMBDA r : r.ds > now) >>

\* prepare_sales_weekly of src/forecasting.py: the same aggregation, then the
\* weeks up to the clock reading.
\* The caller's table after the call: the function assigns to no column, and
\* a selection by a mask is a new table.
split_hist_future_leaves(weekly) == weekly

prepare_sales_weekly(df, now) ==
    SelectSeq(prepare_sales_weekly_all(df), LAMBDA r : r.ds <= now)

app_split(weekly, now) ==
    << SelectSeq(weekly, LAMBDA r : week_begin(r) <= now),
       SelectSeq(weekly, LAMBDA r : week_begin(r) > now) >>

---------------------------------------------------------------------------
(* seasonal_naive_forecast *)

RECURSIVE Gcd(_, _)
Gcd(a, b) == IF b = 0 THEN a ELSE Gcd(b, a % b)

Abs(x) == IF x < 0 THEN -x ELSE x

\* The float n / d (d > 0), in lowest terms.
Frac(n, d) ==
    LET g == Gcd(Abs(n), d)
    IN  [na |-> FALSE, num |-> n \div g, den |-> d \div g]

FloatNaN == [na |-> TRUE, num |-> 0, den |-> 1]

\* Step 1: the ISO_Year and ISO_Week columns.
Annotate(weekly) ==
    [ i \in 1..Len(weekly) |->
        [ ItemCode |-> weekly[i].ItemCode,
          ds       |-> weekly[i].ds,
          y        |-> weekly[i].y,
          ISO_Year |-> IsoYear(weekly[i].ds),
          ISO_Week |-> IsoWeek(weekly[i].ds) ] ]

RECURSIVE GroupTotal(_, _)
GroupTotal(w, key) ==
    IF w = << >> THEN 0
    ELSE (IF << Head(w).ItemCode, Head(w).ISO_Week >> = key THEN Head(w).y ELSE 0)
         + GroupTotal(Tail(w), key)

RECURSIVE GroupCount(_, _)
GroupCount(w, key) ==
    IF w = << >> THEN 0
    ELSE (IF << Head(w).ItemCode, Head(w).ISO_Week >> = key THEN 1 ELSE 0)
         + GroupCount(Tail(w), key)

RECURSIVE GroupLast(_, _, _)
GroupLast(w, key, acc) ==
    IF w = << >> THEN acc
    ELSE GroupLast(Tail(w), key,
                   IF << Head(w).ItemCode, Head(w).ISO_Week >> = key
                   THEN Head(w).y ELSE acc)

\* Variant: the group's last value instead of its mean.
GroupMean_Last(w, key) == Frac(GroupLast(w, key, 0), 1)

\* Variant: the group's total instead of its mean.
GroupMean_Sum(w, key) == Frac(GroupTotal(w, key), 1)

\* .agg({"y": "mean"}) of one (ItemCode, ISO_Week) group.
GroupMean(w, key) == Frac(GroupTotal(w, key), GroupCount(w, key))

\* Step 2: one row per (ItemCode, ISO_Week) present, sorted by the keys.
SeasonalAvg(w) ==
    LET keys == SortedKeys({ << w[i].ItemCode, w[i].ISO_Week >> : i \in 1..Len(w) })
    IN  [ i \in 1..Len(keys) |->
            [ ItemCode       |-> keys[i][1],
              ISO_Week       |-> keys[i][2],
              y_seasonal_avg |-> GroupMean(w, keys[i]) ] ]

\* Variant: the ds of the last row instead of the maximum.
MaxDs_LastRow(weekly) == weekly[Len(weekly)].ds

\* weekly_hist["ds"].max()
RECURSIVE MaxDs(_)
MaxDs(weekly) ==
    IF Len(weekly) = 1 THEN weekly[1].ds
    ELSE LET m == MaxDs(Tail(weekly))
         IN  IF weekly[1].ds > m THEN weekly[1].ds ELSE m

\* Step 3: the loop over range(forecast_weeks), starting at cur.
RECURSIVE FutureSundays(_, _)
FutureSundays(cur, n) ==
    IF n <= 0 THEN << >> ELSE << cur >> \o FutureSundays(cur + 7, n - 1)

\* A column built from an empty list has dtype object; from Timestamps, datetime64.
ColumnDtype(values) == IF values = << >> THEN "object" ELSE "datetime64[ns]"

FutureDf(sundays) ==
    [ i \in 1..Len(sundays) |-> [ds |-> sundays[i], ISO_Week |-> IsoWeek(sundays[i])] ]

\* Series.unique(): the values in order of first appearance.
RECURSIVE Unique(_, _)
Unique(weekly, seen) ==
    IF weekly = << >> THEN << >>
    ELSE IF Head(weekly).ItemCode \in seen THEN Unique(Tail(weekly), seen)
         ELSE << Head(weekly).ItemCode >>
              \o Unique(Tail(weekly), seen \cup {Head(weekly).ItemCode})

RECURSIVE Flatten(_)
Flatten(ss) == IF ss = << >> THEN << >> ELSE Head(ss) \o Flatten(Tail(ss))

\* Step 4: sku_df.merge(future_df, how="cross")
CrossJoin(skus, future) ==
    Flatten([ i \in 1..Len(skus) |->
                [ j \in 1..Len(future) |->
                    [ ItemCode |-> skus[i],
                      ds       |-> future[j].ds,
                      ISO_Week |-> future[j].ISO_Week ] ] ])

\* Variant: an inner join, which drops the rows that match nothing.
LeftJoin_Inner(left, avg) ==
    Flatten([ i \in 1..Len(left) |->
        LET hits == SelectSeq(avg, LAMBDA a : /\ a.ItemCode = left[i].ItemCode
                                             /\ a.ISO_Week = left[i].ISO_Week)
        IN  [ j \in 1..Len(hits) |->
                [ ItemCode |-> left[i].ItemCode, ds |-> left[i].ds,
                  y_seasonal_avg |-> hits[j].y_seasonal_avg ] ] ])

\* Step 5: merge(seasonal_avg, on=["ItemCode", "ISO_Week"], how="left"):
\* one output row per matching right row, one NaN row when nothing matches.
LeftJoin(left, avg) ==
    Flatten([ i \in 1..Len(left) |->
        LET hits == SelectSeq(avg, LAMBDA a : /\ a.ItemCode = left[i].ItemCode
                                             /\ a.ISO_Week = left[i].ISO_Week)
        IN  IF hits = << >>
            THEN << [ ItemCode |-> left[i].ItemCode, ds |-> left[i].ds,
                      y_seasonal_avg |-> FloatNaN ] >>
            ELSE [ j \in 1..Len(hits) |->
                     [ ItemCode |-> left[i].ItemCode, ds |-> left[i].ds,
                       y_seasonal_avg |-> hits[j].y_seasonal_avg ] ] ])

\* Variant: the missing average left as it is.
fillna0_Keep(x) == x

\* Step 6: fillna(0.0)
fillna0(x) == IF x.na THEN Frac(0, 1) ELSE x

\* Step 7: the columns returned.
Project(joined) ==
    [ i \in 1..Len(joined) |->
        [ ItemCode |-> joined[i].ItemCode,
          ds       |-> joined[i].ds,
          yhat     |-> fillna0(joined[i].y_seasonal_avg) ] ]

Returned(rows) == [status |-> "ok", rows |-> rows]
Raised(exc) == [status |-> exc, rows |-> << >>]

\* Steps 1 to 7, for a non-empty table.
ForecastSteps(hist, n) ==
    LET w       == Annotate(hist)
        avg     == SeasonalAvg(w)
        last    == MaxDs(hist)
        sundays == FutureSundays(last + 7, n)
    IN  IF ColumnDtype(sundays) # "datetime64[ns]"
        THEN Raised("AttributeError")   \* .dt on a non-datetime column
        ELSE Returned(Project(LeftJoin(CrossJoin(Unique(hist, {}), FutureDf(sundays)),
                                       avg)))

\* Variant: no early return for an empty table; an empty table then yields
\* no SKU and so no row, unless the ISO week of the future column fails first.
seasonal_naive_forecast_NoGuard(hist, n) ==
    IF ColumnDtype(FutureSundays(0, n)) # "datetime64[ns]"
    THEN Raised("AttributeError")
    ELSE IF hist = << >> THEN Returned(<< >>) ELSE ForecastSteps(hist, n)

seasonal_naive_forecast(hist, n) ==
    IF hist = << >> THEN Returned(<< >>) ELSE ForecastSteps(hist, n)

batch_seasonal_naive_forecast(hist, n) == seasonal_naive_forecast(hist, n)

\* Variant: the two columns are assigned to the caller's table itself.
seasonal_naive_forecast_leaves_NoCopy(hist) ==
    IF hist = << >> THEN hist ELSE Annotate(hist)

\* The caller's table after the call: nothing is touched for an empty table;
\* otherwise the ISO_Year and ISO_Week columns are assigned to w, the copy.
seasonal_naive_forecast_leaves(hist) ==
    IF hist = << >> THEN hist
    ELSE LET w == copy(hist)
         IN  IF w.shared THEN Annotate(hist) ELSE hist

---------------------------------------------------------------------------
(* app.py: the demand report *)

\* Lower end of the slider of the forecast horizon.
min_value == 4

SliderWeeks == min_value..(min_value + MaxWeeks - 1)

\* The rows of U at the positions S, in the order of U.
SubTable(U, S) ==
    LET F[i \in 0..Len(U)] ==
            IF i = 0 THEN << >>
            ELSE IF i \in S THEN Append(F[i - 1], U[i]) ELSE F[i - 1]
    IN  F[Len(U)]

Uploads(U) == { SubTable(U, S) : S \in SUBSET (1..Len(U)) }

\* The four CSV files. The despatch and works rows are written with the
\* column names of the sales rows (DispatchDate and EndDate as OrderDate,
\* QuantityDispatched and QuantityPlanned as QuantityOrdered).
DespatchRows ==
    << RawRow("A100", "2024-01-07", "1"),
       RawRow("B200", "2023-01-08", "2"),
       RawRow("A100", "n/a", "2") >>

SalesRows ==
    << RawRow("A100", "2024-01-15", "2"),
       RawRow("A100", "2026-12-27", "1"),
       RawRow("B200", "2024-01-07", "1") >>

WorksRows ==
    << RawRow("A100", "2024-01-15", "2"),
       RawRow("B200", "2026-12-27", "1") >>

StockRow(i, q) == [ItemCode |-> i, ItemDescription |-> "", QuantityOnHand |-> q]

StockRows == << StockRow("A100", Frac(12, 1)), StockRow("B200", Frac(19, 2)) >>

AddFrac(a, b) == Frac(a.num * b.den + b.num * a.den, a.den * b.den)

SubFrac(a, b) == Frac(a.num * b.den - b.num * a.den, a.den * b.den)

\* math.ceil(x / 10)
CeilTenth(x) == -((-x.num) \div (10 * x.den))

\* Variant: always the multiple of 10 above x.
round_up_to_10_Above(x) ==
    IF x.num > 0 THEN (x.num \div (10 * x.den) + 1) * 10 ELSE 0

round_up_to_10(x) == IF x.num > 0 THEN CeilTenth(x) * 10 ELSE 0

Items(rows) == { rows[i].ItemCode : i \in 1..Len(rows) }

Columns(rows) == { week_begin(rows[i]) : i \in 1..Len(rows) }

\* pd.DataFrame()
EmptyFrame == [index |-> {}, columns |-> {}, cell |-> << >>]

\* The yhat column of the forecast rows, as the values of a pivot.
ForecastValues(fcst) ==
    [ i \in 1..Len(fcst) |->
        [ItemCode |-> fcst[i].ItemCode, ds |-> fcst[i].ds, value |-> fcst[i].yhat] ]

\* The y column of weekly rows, as the values of a pivot.
WeeklyValues(weekly) ==
    [ i \in 1..Len(weekly) |->
        [ItemCode |-> weekly[i].ItemCode, ds |-> weekly[i].ds,
         value |-> Frac(weekly[i].y, 1)] ]

\* rows.pivot(index="ItemCode", columns="week_begin", values=...).fillna(0)
Pivot(rows) ==
    [ index   |-> Items(rows),
      columns |-> Columns(rows),
      cell    |-> [ s \in Items(rows), wb \in Columns(rows) |->
                      LET hits == SelectSeq(rows, LAMBDA r : /\ r.ItemCode = s
                                                            /\ week_begin(r) = wb)
                      IN  IF hits = << >> THEN Frac(0, 1) ELSE hits[1].value ] ]

\* report_df[col] = pivot[wb]: aligned on ItemCode, NaN where the pivot has
\* no such item.
Aligned(pivot, s, wb) == IF s \in pivot.index THEN pivot.cell[s, wb] ELSE FloatNaN

ForecastColumn(pivot, s, wb) ==
    IF wb \in pivot.columns THEN Aligned(pivot, s, wb) ELSE Frac(0, 1)

\* The Actual and the Planned column of one week.
FutureColumn(pivot, s, wb) ==
    IF pivot.index # {} /\ wb \in pivot.columns
    THEN Aligned(pivot, s, wb) ELSE Frac(0, 1)

RECURSIVE SortedDays(_)
SortedDays(D) ==
    IF D = {} THEN << >>
    ELSE LET m == CHOOSE a \in D : \A b \in D : a <= b
         IN  << m >> \o SortedDays(D \ {m})

RECURSIVE SortedIndex(_)
SortedIndex(S) ==
    IF S = {} THEN << >>
    ELSE LET m == CHOOSE a \in S : \A b \in S : ItemRank(a) <= ItemRank(b)
         IN  << m >> \o SortedIndex(S \ {m})

all_week_begins(pivot_fcst_raw, pivot_sales_raw, pivot_works_raw) ==
    SortedDays(pivot_fcst_raw.columns
               \cup (IF pivot_sales_raw.index # {} THEN pivot_sales_raw.columns ELSE {})
               \cup (IF pivot_works_raw.index # {} THEN pivot_works_raw.columns ELSE {}))

\* .sum(axis=1) over the cells of one row; NaN cells are skipped.
RECURSIVE SumSkipNa(_)
SumSkipNa(cells) ==
    IF cells = << >> THEN Frac(0, 1)
    ELSE AddFrac(IF Head(cells).na THEN Frac(0, 1) ELSE Head(cells),
                 SumSkipNa(Tail(cells)))

\* 6D: the stock rows, then every forecast SKU that stock does not have.
WithForecastSkus(stock, pivot_fcst_raw) ==
    [ i \in 1..Len(stock) |->
        [ItemCode |-> stock[i].ItemCode, CurrentStock |-> stock[i].QuantityOnHand] ]
    \o LET missing == SortedIndex(pivot_fcst_raw.index \ Items(stock))
       IN  [ i \in 1..Len(missing) |->
               [ItemCode |-> missing[i], CurrentStock |-> Frac(0, 1)] ]

RECURSIVE ItemTotal(_, _)
ItemTotal(rows, s) ==
    IF rows = << >> THEN 0
    ELSE (IF Head(rows).ItemCode = s THEN Head(rows).y ELSE 0)
         + ItemTotal(Tail(rows), s)

\* 6F: the backlog of one item; an item in neither table gets 0.
OverdueOrders(hist, sales_hist, s) ==
    LET d == ItemTotal(sales_hist, s) - ItemTotal(hist, s)
    IN  Frac(IF d < 0 THEN 0 ELSE d, 1)

\* Step 6 (6A to 6H).
demand_report(stock, hist, sales_hist, sales_future, works_future, fcst) ==
    LET pivot_fcst_raw  == Pivot(ForecastValues(fcst))
        pivot_sales_raw == IF sales_future # << >>
                           THEN Pivot(WeeklyValues(sales_future))
                           ELSE EmptyFrame
        pivot_works_raw == IF works_future # << >>
                           THEN Pivot(WeeklyValues(works_future))
                           ELSE EmptyFrame
        base  == WithForecastSkus(stock, pivot_fcst_raw)
        weeks == all_week_begins(pivot_fcst_raw, pivot_sales_raw, pivot_works_raw)
    IN  [ i \in 1..Len(base) |->
            LET s  == base[i].ItemCode
                fc == [ k \in 1..Len(weeks) |-> ForecastColumn(pivot_fcst_raw, s, weeks[k]) ]
                ac == [ k \in 1..Len(weeks) |-> FutureColumn(pivot_sales_raw, s, weeks[k]) ]
                pl == [ k \in 1..Len(weeks) |-> FutureColumn(pivot_works_raw, s, weeks[k]) ]
                nd == SubFrac(AddFrac(base[i].CurrentStock, SumSkipNa(pl)), SumSkipNa(ac))
            IN  [ ItemCode            |-> s,
                  CurrentStock        |-> base[i].CurrentStock,
                  OverdueOrders       |-> OverdueOrders(hist, sales_hist, s),
                  TotalForecastNextNW |-> SumSkipNa(fc),
                  TotalActualNextNW   |-> SumSkipNa(ac),
                  TotalPlannedNextNW  |-> SumSkipNa(pl),
                  NetDemandNextNW     |-> nd,
                  RecommendReorderQty |-> round_up_to_10(nd),
                  week_begins         |-> weeks,
                  Forecast            |-> fc,
                  Actual              |-> ac,
                  Planned             |-> pl ] ]

---------------------------------------------------------------------------
(* The pipeline *)

NotRun == [status |-> "not run", rows |-> << >>]

NotCalled ==
    [today |-> 0, weekly_hist |-> << >>, weekly_future_actual |-> << >>,
     sales_weekly |-> << >>]

Init ==
    /\ pc = "upload"
    /\ sales_df = << >>
    /\ weekly_all = << >>
    /\ today = 0
    /\ weekly_hist = << >>
    /\ weekly_future_actual = << >>
    /\ weekly_sales_hist = << >>
    /\ weekly_sales_future = << >>
    /\ forecast_weeks = 0
    /\ forecast_df = NotRun
    /\ hist_reordered = << >>
    /\ forecast_reordered = NotRun
    /\ sales_weekly = << >>
    /\ second_call = NotCalled
    /\ despatch_df = << >>
    /\ works_df = << >>
    /\ stock_df = << >>
    /\ weekly_works_future = << >>
    /\ report_df = << >>

\* One more row of the uploaded CSV.
ReadRow(r) ==
    /\ UNCHANGED appVars
    /\ pc = "upload"
    /\ Len(sales_df) < MaxEvents
    /\ IF sales_df = << >> THEN TRUE
       ELSE RowRank(r) <= RowRank(sales_df[Len(sales_df)])
    /\ sales_df' = Append(sales_df, r)
    /\ UNCHANGED << pc, weekly_all, today, weekly_hist, weekly_future_actual,
                    weekly_sales_hist, weekly_sales_future, forecast_weeks,
                    forecast_df, hist_reordered, forecast_reordered,
                    sales_weekly, second_call >>

PrepareWeekly ==
    /\ UNCHANGED appVars
    /\ pc = "upload"
    /\ weekly_all' = prepare_sales_weekly_all(sales_df)
    /\ sales_df' = prepare_sales_weekly_all_leaves(sales_df)
    /\ pc' = "weekly"
    /\ UNCHANGED << today, weekly_hist, weekly_future_actual,
                    weekly_sales_hist, weekly_sales_future, forecast_weeks,
                    forecast_df, hist_reordered, forecast_reordered,
                    sales_weekly, second_call >>

\* The calls that read the clock, with the clock reading now.
Split(now) ==
    /\ UNCHANGED appVars
    /\ pc = "weekly"
    /\ today' = now
    /\ weekly_hist' = split_hist_future(weekly_all, now)[1]
    /\ weekly_future_actual' = split_hist_future(weekly_all, now)[2]
    /\ weekly_sales_hist' = app_split(weekly_all, now)[1]
    /\ weekly_sales_future' = app_split(weekly_all, now)[2]
    /\ sales_weekly' = prepare_sales_weekly(sales_df, now)
    /\ weekly_all' = split_hist_future_leaves(weekly_all)
    /\ pc' = "split"
    /\ UNCHANGED << sales_df, forecast_weeks, forecast_df,
                    hist_reordered, forecast_reordered, second_call >>

\* The same calls with the same arguments, the clock reading later.
SplitAgain(later) ==
    /\ UNCHANGED appVars
    /\ pc = "split"
    /\ second_call' =
          [ today                |-> later,
            weekly_hist          |-> split_hist_future(weekly_all, later)[1],
            weekly_future_actual |-> split_hist_future(weekly_all, later)[2],
            sales_weekly         |-> prepare_sales_weekly(sales_df, later) ]
    /\ pc' = "split again"
    /\ UNCHANGED << sales_df, weekly_all, today, weekly_hist, weekly_future_actual,
                    weekly_sales_hist, weekly_sales_future, forecast_weeks,
                    forecast_df, hist_reordered, forecast_reordered, sales_weekly >>

Forecast(n) ==
    /\ UNCHANGED appVars
    /\ pc = "split"
    /\ forecast_weeks' = n
    /\ forecast_df' = batch_seasonal_naive_forecast(weekly_hist, n)
    /\ weekly_hist' = seasonal_naive_forecast_leaves(weekly_hist)
    /\ pc' = "forecast"
    /\ UNCHANGED << sales_df, weekly_all, today, weekly_future_actual,
                    weekly_sales_hist, weekly_sales_future,
                    hist_reordered, forecast_reordered, sales_weekly, second_call >>

\* A second run on the same historic rows, handed over in the row order p.
Reforecast(p) ==
    /\ UNCHANGED appVars
    /\ pc = "forecast"
    /\ hist_reordered' = [ i \in 1..Len(weekly_hist) |-> weekly_hist[p[i]] ]
    /\ forecast_reordered' =
           batch_seasonal_naive_forecast(
               [ i \in 1..Len(weekly_hist) |-> weekly_hist[p[i]] ], forecast_weeks)
    /\ pc' = "done"
    /\ UNCHANGED << sales_df, weekly_all, today, weekly_hist, weekly_future_actual,
                    weekly_sales_hist, weekly_sales_future, forecast_weeks,
                    forecast_df, sales_weekly, second_call >>

Next ==
    \/ \E r \in RawRows : ReadRow(r)
    \/ PrepareWeekly
    \/ \E now \in Todays : Split(now)
    \/ \E later \in { t \in Todays : t > today } : SplitAgain(later)
    \/ \E n \in Horizons : Forecast(n)
    \/ /\ pc = "forecast"
       /\ \E p \in Permutations(1..Len(weekly_hist)) : Reforecast(p)

Spec == Init /\ [][Next]_vars

---------------------------------------------------------------------------
(* The run of app.py *)

pipelineVars == << weekly_future_actual, hist_reordered, forecast_reordered,
                   sales_weekly, second_call >>

\* Step 1: the four uploads.
Upload(d, s, w, k) ==
    /\ pc = "upload"
    /\ despatch_df' = d
    /\ sales_df' = s
    /\ works_df' = w
    /\ stock_df' = k
    /\ pc' = "uploaded"
    /\ UNCHANGED << weekly_all, today, weekly_hist, weekly_sales_hist,
                    weekly_sales_future, forecast_weeks, forecast_df,
                    weekly_works_future, report_df >>
    /\ UNCHANGED pipelineVars

\* Step 4: coercion in place, the weekly tables, the split on week_begin;
\* the script stops when no historic despatch week is left.
WeeklyPreparation(now) ==
    /\ pc = "uploaded"
    /\ despatch_df' = dropna(Coerce(despatch_df))
    /\ sales_df' = dropna(Coerce(sales_df))
    /\ works_df' = dropna(Coerce(works_df))
    /\ weekly_all' = GroupByWeek(dropna(Coerce(sales_df)))
    /\ today' = now
    /\ weekly_hist' = app_split(GroupByWeek(dropna(Coerce(despatch_df))), now)[1]
    /\ weekly_sales_hist' = app_split(GroupByWeek(dropna(Coerce(sales_df))), now)[1]
    /\ weekly_sales_future' = app_split(GroupByWeek(dropna(Coerce(sales_df))), now)[2]
    /\ weekly_works_future' = app_split(GroupByWeek(dropna(Coerce(works_df))), now)[2]
    /\ pc' = IF app_split(GroupByWeek(dropna(Coerce(despatch_df))), now)[1] = << >>
             THEN "stopped" ELSE "prepared"
    /\ UNCHANGED << stock_df, forecast_weeks, forecast_df, report_df >>
    /\ UNCHANGED pipelineVars

\* Step 5: the horizon of the slider and the forecast.
SliderForecast(n) ==
    /\ pc = "prepared"
    /\ forecast_weeks' = n
    /\ forecast_df' = batch_seasonal_naive_forecast(weekly_hist, n)
    /\ weekly_hist' = seasonal_naive_forecast_leaves(weekly_hist)
    /\ pc' = "forecasted"
    /\ UNCHANGED << sales_df, weekly_all, today, weekly_sales_hist,
                    weekly_sales_future, despatch_df, works_df, stock_df,
                    weekly_works_future, report_df >>
    /\ UNCHANGED pipelineVars

\* Step 6: the demand report.
DemandReport ==
    /\ pc = "forecasted"
    /\ report_df' = demand_report(stock_df, weekly_hist, weekly_sales_hist,
                                  weekly_sales_future, weekly_works_future,
                                  forecast_df.rows)
    /\ pc' = "report"
    /\ UNCHANGED << sales_df, weekly_all, today, weekly_hist, weekly_sales_hist,
                    weekly_sales_future, forecast_weeks, forecast_df, despatch_df,
                    works_df, stock_df, weekly_works_future >>
    /\ UNCHANGED pipelineVars

NextReport ==
    \/ \E d \in Uploads(DespatchRows), s \in Uploads(SalesRows),
          w \in Uploads(WorksRows), k \in Uploads(StockRows) : Upload(d, s, w, k)
    \/ \E now \in Todays : WeeklyPreparation(now)
    \/ \E n \in SliderWeeks : SliderForecast(n)
    \/ DemandReport

SpecReport == Init /\ [][NextReport]_vars

---------------------------------------------------------------------------
(* Properties of the forecaster *)

ForecastRan == pc = "forecast"

Rows == forecast_df.rows

HistItems == { weekly_hist[i].ItemCode : i \in 1..Len(weekly_hist) }

\* The latest week_end of the whole historic table.
GlobalLast ==
    CHOOSE d \in { weekly_hist[i].ds : i \in 1..Len(weekly_hist) } :
        \A i \in 1..Len(weekly_hist) : weekly_hist[i].ds <= d

\* The historic rows of item s whose week has ISO week number wk.
SameWeekRows(s, wk) ==
    { i \in 1..Len(weekly_hist) :
        weekly_hist[i].ItemCode = s /\ IsoWeek(weekly_hist[i].ds) = wk }

RECURSIVE SumY(_)
SumY(I) ==
    IF I = {} THEN 0
    ELSE LET i == CHOOSE j \in I : TRUE IN weekly_hist[i].y + SumY(I \ {i})

\* C1: for a non-empty historic table with N distinct items and a horizon
\* W >= 1 the forecaster returns exactly N * W rows, and every pair of an
\* item and one of the W forecast weeks is in exactly one row.
C1_RowCount ==
    (ForecastRan /\ weekly_hist # << >> /\ forecast_weeks >= 1) =>
        /\ forecast_df.status = "ok"
        /\ Len(Rows) = Cardinality(HistItems) * forecast_weeks
        /\ \A s \in HistItems : \A k \in 1..forecast_weeks :
              Cardinality({ i \in 1..Len(Rows) :
                  Rows[i].ItemCode = s /\ Rows[i].ds = GlobalLast + 7 * k }) = 1

C1_Witness ==
    /\ ForecastRan
    /\ Cardinality(HistItems) = 2
    /\ forecast_weeks = 2
    /\ Len(Rows) = 4
    /\ \E i \in 1..Len(Rows) : Rows[i].yhat.num # 0
    /\ \E i \in 1..Len(Rows) : Rows[i].yhat.num = 0

\* C2: the forecast weeks are exactly last + 7k days for 1 <= k <= W, last
\* being the latest week_end of the whole input; every item gets these same
\* W dates, whatever its own latest week.
C2_ForecastWeeks ==
    (ForecastRan /\ weekly_hist # << >> /\ forecast_weeks >= 1) =>
        \A s \in HistItems :
            { Rows[i].ds : i \in { j \in 1..Len(Rows) : Rows[j].ItemCode = s } }
                = { GlobalLast + 7 * k : k \in 1..forecast_weeks }

\* An item whose own latest week is earlier than the global one.
C2_Witness ==
    /\ ForecastRan
    /\ forecast_weeks = 2
    /\ \E s \in HistItems :
          /\ \A i \in 1..Len(weekly_hist) :
                weekly_hist[i].ItemCode = s => weekly_hist[i].ds < GlobalLast
          /\ \E i \in 1..Len(Rows) :
                Rows[i].ItemCode = s /\ Rows[i].ds = GlobalLast + 14

\* C3: where item s has historic rows in the ISO week of the forecast week,
\* the forecast is the sum of their quantities divided by their number.
C3_SeasonalMean ==
    ForecastRan =>
        \A i \in 1..Len(Rows) :
            LET I == SameWeekRows(Rows[i].ItemCode, IsoWeek(Rows[i].ds))
            IN  I # {} =>
                  /\ ~ Rows[i].yhat.na
                  /\ Rows[i].yhat.den > 0
                  /\ Rows[i].yhat.num * Cardinality(I) = SumY(I) * Rows[i].yhat.den

\* Two years of the same ISO week with different quantities, while the
\* other item has a row too: the forecast is 3/2.
C3_Witness ==
    /\ ForecastRan
    /\ Cardinality(HistItems) = 2
    /\ \E i \in 1..Len(Rows) :
          LET I == SameWeekRows(Rows[i].ItemCode, IsoWeek(Rows[i].ds))
          IN  /\ Cardinality(I) = 2
              /\ Rows[i].yhat = [na |-> FALSE, num |-> 3, den |-> 2]

\* C4: where item s has no historic row in the ISO week of the forecast
\* week, the forecast is exactly 0, not a missing value.
C4_ZeroFallback ==
    ForecastRan =>
        \A i \in 1..Len(Rows) :
            SameWeekRows(Rows[i].ItemCode, IsoWeek(Rows[i].ds)) = {} =>
                Rows[i].yhat = [na |-> FALSE, num |-> 0, den |-> 1]

\* A forecast week in ISO week 53, which no item ever had, next to a forecast
\* week that one item had (ISO week 1) and the other did not, the other
\* having a row in the week before.
C4_Witness ==
    /\ ForecastRan
    /\ \E i \in 1..Len(Rows) :
          /\ IsoWeek(Rows[i].ds) = 53
          /\ Rows[i].yhat.num = 0
    /\ \E i \in 1..Len(Rows) :
          /\ IsoWeek(Rows[i].ds) = 1
          /\ SameWeekRows(Rows[i].ItemCode, 1) = {}
          /\ SameWeekRows(Rows[i].ItemCode, 52) # {}
          /\ \E s \in HistItems : SameWeekRows(s, 1) # {}
          /\ Rows[i].yhat.num = 0

\* C5: an empty historic table gives a table with no rows, and no error,
\* whatever the horizon.
C5_EmptyInput ==
    (ForecastRan /\ weekly_hist = << >>) =>
        forecast_df = [status |-> "ok", rows |-> << >>]

C5_Witness ==
    /\ ForecastRan
    /\ weekly_hist = << >>
    /\ weekly_all # << >>
    /\ forecast_weeks = 0
    /\ forecast_df.status = "ok"

---------------------------------------------------------------------------
(* Properties of the aggregation and of the split *)

Count(seq, r) == Cardinality({ i \in 1..Len(seq) : seq[i] = r })

RowsOf(seq) == { seq[i] : i \in 1..Len(seq) }

\* The raw rows with an item, a date that parses and a quantity that parses.
ValidRaw ==
    { i \in 1..Len(sales_df) :
        /\ sales_df[i].ItemCode \in ItemCodes
        /\ sales_df[i].OrderDate \in RawDates \ {"n/a"}
        /\ sales_df[i].QuantityOrdered \in RawQtys \ {"x"} }

RawDay(i) == to_datetime(sales_df[i].OrderDate).v

RECURSIVE SumRaw(_)
SumRaw(I) ==
    IF I = {} THEN 0
    ELSE LET i == CHOOSE j \in I : TRUE
         IN  to_numeric(sales_df[i].QuantityOrdered).v + SumRaw(I \ {i})

RECURSIVE SumWeekly(_)
SumWeekly(I) ==
    IF I = {} THEN 0
    ELSE LET i == CHOOSE j \in I : TRUE IN weekly_all[i].y + SumWeekly(I \ {i})

\* C6: the split is exhaustive and disjoint: every row of the weekly table is
\* in exactly one part, nothing is added or altered, a row dated on or before
\* the reference date is historic and a later one is future; likewise for
\* the split of app.py on week_begin.
C6_Partition ==
    pc = "split" =>
        /\ \A r \in RowsOf(weekly_all) \cup RowsOf(weekly_hist)
                        \cup RowsOf(weekly_future_actual) :
              /\ Count(weekly_hist, r) + Count(weekly_future_actual, r)
                    = Count(weekly_all, r)
              /\ r.ds <= today => Count(weekly_future_actual, r) = 0
              /\ r.ds > today => Count(weekly_hist, r) = 0
        /\ \A r \in RowsOf(weekly_all) \cup RowsOf(weekly_sales_hist)
                        \cup RowsOf(weekly_sales_future) :
              /\ Count(weekly_sales_hist, r) + Count(weekly_sales_future, r)
                    = Count(weekly_all, r)
              /\ r.ds - 6 <= today => Count(weekly_sales_future, r) = 0
              /\ r.ds - 6 > today => Count(weekly_sales_hist, r) = 0

\* A week ending on the reference date (historic) next to a later week
\* (future).
C6_Witness ==
    /\ pc = "split"
    /\ \E i \in 1..Len(weekly_hist) : weekly_hist[i].ds = today
    /\ weekly_future_actual # << >>
    /\ Len(weekly_all) = 3

\* C7: per item, the weekly quantities add up to the quantities of the valid
\* raw rows of that item; a row with a bad date, a bad quantity or no item
\* adds nothing and stands behind no weekly row.
C7_SumPreserved ==
    pc = "weekly" =>
        /\ \A s \in RawItems :
              SumWeekly({ i \in 1..Len(weekly_all) : weekly_all[i].ItemCode = s })
                = SumRaw({ i \in ValidRaw : sales_df[i].ItemCode = s })
        /\ \A i \in 1..Len(weekly_all) :
              \E j \in ValidRaw :
                  /\ sales_df[j].ItemCode = weekly_all[i].ItemCode
                  /\ weekly_all[i].ds - 6 <= RawDay(j)
                  /\ RawDay(j) <= weekly_all[i].ds

\* Two valid rows of one item in different weeks and a malformed row.
C7_Witness ==
    /\ pc = "weekly"
    /\ Len(sales_df) = 3
    /\ Cardinality(ValidRaw) = 2
    /\ Len(weekly_all) = 2
    /\ weekly_all[1].ItemCode = weekly_all[2].ItemCode

\* C8: a valid row dated d goes to the one Sunday s with s - 6 <= d <= s;
\* the quantity of a weekly row is the sum over the valid rows of its item
\* dated in that Monday-to-Sunday week; week_begin is the Monday, s - 6.
C8_WeekBuckets ==
    pc = "weekly" =>
        /\ \A i \in 1..Len(weekly_all) :
              /\ DayOfWeek(weekly_all[i].ds) = 6
              /\ DayOfWeek(week_begin(weekly_all[i])) = 0
              /\ week_begin(weekly_all[i]) + 6 = weekly_all[i].ds
              /\ weekly_all[i].y =
                    SumRaw({ j \in ValidRaw :
                        /\ sales_df[j].ItemCode = weekly_all[i].ItemCode
                        /\ weekly_all[i].ds - 6 <= RawDay(j)
                        /\ RawDay(j) <= weekly_all[i].ds })
        /\ \A j \in ValidRaw :
              Cardinality({ i \in 1..Len(weekly_all) :
                  /\ weekly_all[i].ItemCode = sales_df[j].ItemCode
                  /\ weekly_all[i].ds - 6 <= RawDay(j)
                  /\ RawDay(j) <= weekly_all[i].ds }) = 1

\* A Monday row and the Sunday row of the same week, summed in one bucket.
C8_Witness ==
    /\ pc = "weekly"
    /\ \E j, k \in ValidRaw :
          /\ DayOfWeek(RawDay(j)) = 0
          /\ RawDay(k) = RawDay(j) + 6
          /\ sales_df[j].ItemCode = sales_df[k].ItemCode
          /\ \E i \in 1..Len(weekly_all) :
                /\ weekly_all[i].ItemCode = sales_df[j].ItemCode
                /\ weekly_all[i].ds = RawDay(k)
                /\ weekly_all[i].y = 3

\* C9: the forecaster returns the same set of rows for the historic rows in
\* any row order.
C9_OrderIndependent ==
    pc = "done" =>
        /\ forecast_reordered.status = forecast_df.status
        /\ Len(forecast_reordered.rows) = Len(forecast_df.rows)
        /\ RowsOf(forecast_reordered.rows) = RowsOf(forecast_df.rows)

\* A reordering that moves the latest week off the last row and splits the
\* two rows behind a mean.
C9_Witness ==
    /\ pc = "done"
    /\ Len(weekly_hist) = 3
    /\ hist_reordered[3].ds < hist_reordered[1].ds
    /\ hist_reordered[1] # weekly_hist[1]
    /\ \E i \in 1..Len(forecast_reordered.rows) :
          forecast_reordered.rows[i].yhat = [na |-> FALSE, num |-> 3, den |-> 2]

\* C10: with a horizon of zero or less and a non-empty historic table the
\* forecaster returns a table with no rows instead of failing.
C10_EmptyOnBadHorizon ==
    (ForecastRan /\ weekly_hist # << >> /\ forecast_weeks <= 0) =>
        forecast_df = [status |-> "ok", rows |-> << >>]

---------------------------------------------------------------------------
(* Dependence on the clock *)

\* C11: the core operations are functions of their arguments alone: a
\* second call with the same arguments returns the same tables whatever the
\* clock reads; the split is determined by the weekly table passed to it.
C11_ClockIndependent ==
    pc = "split again" =>
        /\ second_call.weekly_hist = weekly_hist
        /\ second_call.weekly_future_actual = weekly_future_actual
        /\ second_call.sales_weekly = sales_weekly

---------------------------------------------------------------------------
(* Frame of the three functions *)

---------------------------------------------------------------------------
(* Properties of the demand report *)

ReportBuilt == pc = "report"

\* a <= b for two fractions
FracLeq(a, b) == a.num * b.den <= b.num * a.den

ForecastWeekBegins == Columns(forecast_df.rows)

\* The quantities of item s in the weeks of rows that are forecast weeks.
RECURSIVE SumOverForecastWeeks(_, _)
SumOverForecastWeeks(rows, s) ==
    IF rows = << >> THEN 0
    ELSE (IF Head(rows).ItemCode = s /\ week_begin(Head(rows)) \in ForecastWeekBegins
          THEN Head(rows).y ELSE 0)
         + SumOverForecastWeeks(Tail(rows), s)

\* C14: in every row of the report, TotalActualNextNW is the sum of the
\* item's future sales weeks that are forecast weeks, and TotalPlannedNextNW
\* the sum of its future works weeks that are forecast weeks; a future week
\* that is no forecast week adds nothing.
C14_TotalsOverForecastWeeks ==
    ReportBuilt =>
        \A i \in 1..Len(report_df) :
            /\ report_df[i].TotalActualNextNW =
                   Frac(SumOverForecastWeeks(weekly_sales_future, report_df[i].ItemCode), 1)
            /\ report_df[i].TotalPlannedNextNW =
                   Frac(SumOverForecastWeeks(weekly_works_future, report_df[i].ItemCode), 1)

====
